---- MODULE Spec2Model ----
(***************************************************************************)
(* A model of forensicskween/invalid-curve-attack:                         *)
(*   - shared/run_timeouts.py : SIGALRM-bounded calls and the escalating   *)
(*     retry loop;                                                         *)
(*   - shared/factor_help.py  : FactorDB + ECM factorization;              *)
(*   - tests/*/server_test_*.py : the scalar-multiplication oracle;        *)
(*   - InvalidCurveGenerator.generate_curves (exercised by the tests),     *)
(*     with factor_help.py as its Factorizer;                              *)
(*   - AttackOrchestrator.run_attack and its CRT combination, with the     *)
(*     test server's oracle.                                               *)
(* Time is counted in whole seconds, the unit of signal.alarm.             *)
(***************************************************************************)
EXTENDS Integers, Sequences, FiniteSets, TLC

VARIABLES
    \* ---- run_timeouts.py ----
    entry,          \* who called the timed code: "loop", "run", "ecm" or "none"
    timeout,        \* the caller's timeout= argument
    kw_max,         \* the caller's max_timeout keyword: absent, None or an int
    pc,             \* position of the timed call
    start_timeout,  \* loop_func_with_timeout's local
    max_timeout,    \* loop_func_with_timeout's local
    rf_timeout,     \* run_func_with_timeout's timeout parameter
    alarm_on,       \* a SIGALRM alarm is scheduled
    alarm_left,     \* seconds until it is due
    elapsed,        \* seconds func has been running in this attempt
    need,           \* seconds func needs in this attempt
    ret,            \* what func does when it completes in this attempt
    rf_result,      \* run_func_with_timeout's local result
    result,         \* loop_func_with_timeout's local result
    exc,            \* exception that left the timed call, "none" if none
    attempts,       \* deadlines of the attempts made so far (history)
    \* ---- factor_help.py ----
    f_pc,           \* position of get_factors / factor_integer
    N,              \* the integer to factor
    fdb,            \* the factor list FactorDB answers with
    factor_dict,    \* get_factors' factor_dict argument
    factors,        \* factor_integer's local list
    idx,            \* position of the for loop's list iterator
    X,              \* the for loop's variable
    f_ret,          \* what get_factors returned
    ecm_failed,     \* an ECM call of this run came back empty-handed (history)
    \* ---- server_test_small_p.py / server_test_big_p.py ----
    E,              \* the server's curve: [a, b, p]
    secret,         \* the server's secret scalar
    lib,            \* which Crypto.Util.number.inverse is installed
    c_op,           \* the function that was called, "none" before the call
    c_P,            \* add's and multiply's P
    c_Q,            \* add's Q
    c_n,            \* multiply's n
    c_C,            \* server_oracle's C
    c_out,          \* what the call did: a point, None, or an exception
    \* ---- InvalidCurveGenerator.generate_curves ----
    g_pc,           \* position of generate_curves
    g_field,        \* the generator's field: [p, a]
    g_b_values,     \* the explicit b_values list (<<>> for a random search)
    g_target,       \* the target count of a random search (0 with b_values)
    g_i,            \* candidates taken so far
    g_b,            \* the candidate whose order is being factored
    g_curves,       \* the curve records collected so far
    g_work,         \* curves constructed, orders counted, factorizations tried
    g_exc,          \* exception that left generate_curves, "none" if none
    \* ---- a run_func_with_timeout call around code that makes timed calls ----
    o_pc,           \* position of the outer call
    o_timeout,      \* the outer call's timeout= argument
    o_elapsed,      \* seconds the outer call's func has been running
    o_work,         \* seconds of its own the outer func still needs here
    o_result,       \* what the outer call returned
    \* ---- run_attack ----
    a_pc,           \* position of run_attack
    a_catalog,      \* the subgroup points: [P, q], P of order q
    a_bound,        \* the known upper bound on the secret
    a_i,            \* subgroup points handled so far
    a_answers,      \* the oracle's answer to each query made (history)
    a_records,      \* the residue records: [modulus, residue]
    a_k,            \* residue records combined so far
    a_M,            \* modulus_acc
    a_R,            \* residue_acc
    a_result        \* what run_attack returned

tvars == <<entry, timeout, kw_max, pc, start_timeout, max_timeout, rf_timeout,
           alarm_on, alarm_left, elapsed, need, ret, rf_result, result, exc,
           attempts>>

fvars == <<f_pc, N, fdb, factor_dict, factors, idx, X, f_ret, ecm_failed>>

cvars == <<E, secret, lib, c_op, c_P, c_Q, c_n, c_C, c_out>>

gvars == <<g_pc, g_field, g_b_values, g_target, g_i, g_b, g_curves, g_work,
           g_exc>>

ovars == <<o_pc, o_timeout, o_elapsed, o_work, o_result>>

avars == <<a_pc, a_catalog, a_bound, a_i, a_answers, a_records, a_k, a_M, a_R,
           a_result>>

vars == <<tvars, fvars, cvars, gvars, ovars, avars>>

----------------------------------------------------------------------------
(* Bounds of the model.                                                    *)

MaxTimeout == 2
MaxCeiling == 4
MaxFactor == 6
MaxFdbLen == 3
MaxScalar == 4
MaxBValues == 2
MaxTarget == 2
MaxTries == 3
MaxOuterTimeout == 2
MaxOwnWork == 2
MaxSecret == 7
MaxModulus == 5
MaxRecords == 3
MaxCatalog == 2

----------------------------------------------------------------------------
(* Python values a func may return, and their truth value.                 *)

Falsy == {"None", "EmptyList", "Zero"}
Truthy(v) == v \notin Falsy
ReturnValues == Falsy \cup {"Success", "Done"}
FuncOutcomes == ReturnValues \cup {"Raise"}
\* ecm.factor returns the (non-empty) list of prime factors; a test func may
\* return or raise anything
FuncOutcomesOf(e) == IF e = "ecm" THEN {"Factors"} ELSE FuncOutcomes

KwMaxValues ==
    {[kind |-> "absent", val |-> 0], [kind |-> "none", val |-> 0]}
    \cup {[kind |-> "int", val |-> m] : m \in 0..MaxCeiling}

----------------------------------------------------------------------------
(* shared/run_timeouts.py                                                  *)

TimedIdle ==
    /\ entry = "none" /\ timeout = 0 /\ kw_max = [kind |-> "absent", val |-> 0]
    /\ pc = "idle" /\ start_timeout = 0 /\ max_timeout = 0 /\ rf_timeout = 0
    /\ alarm_on = FALSE /\ alarm_left = 0 /\ elapsed = 0 /\ need = 0
    /\ ret = "None" /\ rf_result = "None" /\ result = "None" /\ exc = "none"
    /\ attempts = <<>>

\* A test harness calls loop_func_with_timeout(func, timeout=t[, max_timeout=m])
\* or run_func_with_timeout(func, timeout=t).
InitTimed ==
    /\ entry \in {"loop", "run"}
    /\ timeout \in 0..MaxTimeout
    /\ kw_max \in KwMaxValues
    /\ entry = "run" => kw_max.kind = "absent"
    /\ pc = IF entry = "loop" THEN "loop_entry" ELSE "run_entry"
    /\ start_timeout = 0 /\ max_timeout = 0
    /\ rf_timeout = IF entry = "run" THEN timeout ELSE 0
    /\ alarm_on = FALSE /\ alarm_left = 0 /\ elapsed = 0 /\ need = 0
    /\ ret = "None" /\ rf_result = "None" /\ result = "None" /\ exc = "none"
    /\ attempts = <<>>

\* lines 114-118: locals and the two assertions
loop_func_with_timeout ==
    /\ pc = "loop_entry"
    /\ start_timeout' = timeout
    /\ max_timeout' = IF kw_max.kind = "absent" THEN timeout + 5 ELSE kw_max.val
    /\ IF kw_max.kind = "none"
         THEN pc' = "raised" /\ exc' = "TypeError"
         ELSE IF ~(max_timeout' > start_timeout') \/ ~(timeout > 0)
           THEN pc' = "raised" /\ exc' = "AssertionError"
           ELSE pc' = "loop_while" /\ exc' = exc
    /\ result' = "None"
    /\ UNCHANGED <<entry, timeout, kw_max, rf_timeout, alarm_on, alarm_left,
                   elapsed, need, ret, rf_result, attempts>>
    /\ UNCHANGED <<fvars, cvars, gvars, ovars, avars>>

\* loop_while with the loop test written <= instead of <
loop_while_inclusive ==
    /\ pc = "loop_while"
    /\ IF start_timeout <= max_timeout
         THEN pc' = "run_entry" /\ rf_timeout' = start_timeout
         ELSE pc' = "done" /\ rf_timeout' = rf_timeout
    /\ UNCHANGED <<entry, timeout, kw_max, start_timeout, max_timeout, alarm_on,
                   alarm_left, elapsed, need, ret, rf_result, result, exc,
                   attempts>>
    /\ UNCHANGED <<fvars, cvars, gvars, ovars, avars>>

\* line 119 (the loop test), line 120 (the call) and line 125 (the final return)
loop_while ==
    /\ pc = "loop_while"
    /\ IF start_timeout < max_timeout
         THEN pc' = "run_entry" /\ rf_timeout' = start_timeout
         ELSE pc' = "done" /\ rf_timeout' = rf_timeout
    /\ UNCHANGED <<entry, timeout, kw_max, start_timeout, max_timeout, alarm_on,
                   alarm_left, elapsed, need, ret, rf_result, result, exc,
                   attempts>>
    /\ UNCHANGED <<fvars, cvars, gvars, ovars, avars>>

\* run_func_with_timeout without the signal.alarm(timeout) of line 75
run_func_without_alarm ==
    /\ pc = "run_entry"
    /\ IF ~(rf_timeout > 0)
         THEN /\ pc' = "raised" /\ exc' = "AssertionError"
              /\ UNCHANGED <<alarm_on, alarm_left, elapsed, need, ret, attempts>>
         ELSE /\ alarm_on' = FALSE /\ alarm_left' = 0
              /\ elapsed' = 0
              /\ \E d \in 0..(rf_timeout + 1), v \in FuncOutcomesOf(entry) :
                    need' = d /\ ret' = v
              /\ attempts' = Append(attempts, rf_timeout)
              /\ pc' = "func" /\ exc' = exc
    /\ UNCHANGED <<entry, timeout, kw_max, start_timeout, max_timeout,
                   rf_timeout, rf_result, result>>
    /\ UNCHANGED <<fvars, cvars, gvars, ovars, avars>>

\* lines 71-78: the assertion, signal.alarm(timeout), and func starts running
run_func_with_timeout ==
    /\ pc = "run_entry"
    /\ IF ~(rf_timeout > 0)
         THEN /\ pc' = "raised" /\ exc' = "AssertionError"
              /\ UNCHANGED <<alarm_on, alarm_left, elapsed, need, ret, attempts>>
         ELSE /\ alarm_on' = TRUE /\ alarm_left' = rf_timeout
              /\ elapsed' = 0
              /\ \E d \in 0..(rf_timeout + 1), v \in FuncOutcomesOf(entry) :
                    need' = d /\ ret' = v
              /\ attempts' = Append(attempts, rf_timeout)
              /\ pc' = "func" /\ exc' = exc
    /\ UNCHANGED <<entry, timeout, kw_max, start_timeout, max_timeout,
                   rf_timeout, rf_result, result>>
    /\ UNCHANGED <<fvars, cvars, gvars, ovars, avars>>

\* one second passes while func runs
func_tick ==
    /\ pc = "func"
    /\ elapsed < need
    /\ ~(alarm_on /\ alarm_left = 0)
    /\ elapsed' = elapsed + 1
    /\ alarm_left' = IF alarm_on THEN alarm_left - 1 ELSE alarm_left
    /\ UNCHANGED <<entry, timeout, kw_max, pc, start_timeout, max_timeout,
                   rf_timeout, alarm_on, need, ret, rf_result, result, exc,
                   attempts>>
    /\ o_elapsed' = IF o_pc = "inner" THEN o_elapsed + 1 ELSE o_elapsed
    /\ UNCHANGED <<o_pc, o_timeout, o_work, o_result>>
    /\ UNCHANGED <<fvars, cvars, gvars, avars>>

\* line 78 completes with a value; lines 81-85: the alarm is cancelled
func_returns ==
    /\ pc = "func"
    /\ elapsed = need
    /\ ret # "Raise"
    /\ rf_result' = ret
    /\ alarm_on' = FALSE /\ alarm_left' = 0
    /\ pc' = IF entry = "run" THEN "done" ELSE "run_exit"
    /\ UNCHANGED <<entry, timeout, kw_max, start_timeout, max_timeout,
                   rf_timeout, elapsed, need, ret, result, exc, attempts>>
    /\ UNCHANGED <<fvars, cvars, gvars, ovars, avars>>

\* func_raises without the finally clause of lines 81-83
func_raises_without_finally ==
    /\ pc = "func"
    /\ elapsed = need
    /\ ret = "Raise"
    /\ pc' = "raised" /\ exc' = "FuncError"
    /\ UNCHANGED <<entry, timeout, kw_max, start_timeout, max_timeout,
                   rf_timeout, alarm_on, alarm_left, elapsed, need, ret,
                   rf_result, result, attempts>>
    /\ UNCHANGED <<fvars, cvars, gvars, ovars, avars>>

\* line 78 raises something else; lines 81-83 cancel the alarm, nothing
\* catches the exception
func_raises ==
    /\ pc = "func"
    /\ elapsed = need
    /\ ret = "Raise"
    /\ alarm_on' = FALSE /\ alarm_left' = 0
    /\ pc' = "raised" /\ exc' = "FuncError"
    /\ UNCHANGED <<entry, timeout, kw_max, start_timeout, max_timeout,
                   rf_timeout, elapsed, need, ret, rf_result, result, attempts>>
    /\ UNCHANGED <<fvars, cvars, gvars, ovars, avars>>

\* lines 35-46: SIGALRM is due, the handler raises TimeoutException in func;
\* lines 79-85: it is caught, result = None, the alarm is cancelled
timeout_handler ==
    /\ pc = "func"
    /\ alarm_on /\ alarm_left = 0
    /\ rf_result' = "None"
    /\ alarm_on' = FALSE /\ alarm_left' = 0
    /\ pc' = IF entry = "run" THEN "done" ELSE "run_exit"
    /\ UNCHANGED <<entry, timeout, kw_max, start_timeout, max_timeout,
                   rf_timeout, elapsed, need, ret, result, exc, attempts>>
    /\ UNCHANGED <<fvars, cvars, gvars, ovars, avars>>

\* loop_check without the start_timeout += 1 of line 123
loop_check_no_increment ==
    /\ pc = "run_exit"
    /\ result' = rf_result
    /\ pc' = IF Truthy(rf_result) THEN "done" ELSE "loop_while"
    /\ UNCHANGED <<entry, timeout, kw_max, start_timeout, max_timeout,
                   rf_timeout, alarm_on, alarm_left, elapsed, need, ret,
                   rf_result, exc, attempts>>
    /\ UNCHANGED <<fvars, cvars, gvars, ovars, avars>>

\* lines 120-123: result = run_func_with_timeout(...); if result: return result;
\* start_timeout += 1
loop_check ==
    /\ pc = "run_exit"
    /\ result' = rf_result
    /\ IF Truthy(rf_result)
         THEN pc' = "done" /\ start_timeout' = start_timeout
         ELSE pc' = "loop_while" /\ start_timeout' = start_timeout + 1
    /\ UNCHANGED <<entry, timeout, kw_max, max_timeout, rf_timeout, alarm_on,
                   alarm_left, elapsed, need, ret, rf_result, exc, attempts>>
    /\ UNCHANGED <<fvars, cvars, gvars, ovars, avars>>

\* the value the top-level timed call returned
Returned == IF entry = "run" THEN rf_result ELSE result

\* the timed call is over and its frame is gone
TimedReset ==
    /\ entry' = "none" /\ pc' = "idle" /\ start_timeout' = 0
    /\ max_timeout' = 0 /\ rf_timeout' = 0 /\ alarm_on' = FALSE
    /\ alarm_left' = 0 /\ elapsed' = 0 /\ need' = 0 /\ ret' = "None"
    /\ rf_result' = "None" /\ result' = "None" /\ exc' = "none"
    /\ attempts' = <<>>


\* nothing of factor_help.py is running
FactorIdle ==
    /\ f_pc = "idle" /\ N = 0 /\ fdb = <<>> /\ factor_dict = FALSE
    /\ factors = <<>> /\ idx = 0 /\ X = 0 /\ f_ret = <<>>
    /\ ecm_failed = FALSE

\* no server is set up
CurveIdle ==
    /\ E = [a |-> 0, b |-> 0, p |-> 0] /\ secret = 0 /\ lib = "pow"
    /\ c_op = "none" /\ c_P = <<0, 0>> /\ c_Q = <<0, 0>> /\ c_n = 0
    /\ c_C = [shape |-> "pair", x |-> 0, y |-> 0]
    /\ c_out = [kind |-> "None", pt |-> <<0, 0>>]

\* no generation is running
GeneratorIdle ==
    /\ g_pc = "idle" /\ g_field = [p |-> 0, a |-> 0] /\ g_b_values = <<>>
    /\ g_target = 0 /\ g_i = 0 /\ g_b = 0 /\ g_curves = <<>>
    /\ g_work = [curves |-> 0, orders |-> 0, factorizations |-> 0]
    /\ g_exc = "none"

\* no timed call is wrapped in another one
OuterIdle ==
    /\ o_pc = "idle" /\ o_timeout = 0 /\ o_elapsed = 0 /\ o_work = 0
    /\ o_result = "None"

\* no attack is running
AttackIdle ==
    /\ a_pc = "idle" /\ a_catalog = <<>> /\ a_bound = 0 /\ a_i = 0
    /\ a_answers = <<>> /\ a_records = <<>> /\ a_k = 0 /\ a_M = 1 /\ a_R = 0
    /\ a_result = [kind |-> "none", val |-> 0]

InitT == InitTimed /\ FactorIdle /\ CurveIdle /\ GeneratorIdle /\ OuterIdle
         /\ AttackIdle
NextT ==
    \/ loop_func_with_timeout
    \/ loop_while
    \/ run_func_with_timeout
    \/ func_tick
    \/ func_returns
    \/ func_raises
    \/ timeout_handler
    \/ loop_check
SpecT == InitT /\ [][NextT]_vars
\* the interpreter keeps executing and the clock keeps running
FairSpecT == SpecT /\ WF_vars(NextT)

----------------------------------------------------------------------------
(* Claims about run_timeouts.py                                            *)

LastAttempt == attempts[Len(attempts)]
InLoopBody == entry = "loop" /\ pc \notin {"loop_entry", "raised"}

\* C1: loop_func_with_timeout makes its first attempt under deadline t; after
\* a failed attempt the next deadline is strictly larger; no attempt runs
\* under a deadline greater than m; once start_timeout has reached m func is
\* not attempted again and the call has failed (a falsy result).
C1_EscalatingDeadlines ==
    entry = "loop" =>
      /\ attempts # <<>> => attempts[1] = timeout
      /\ \A i \in 1..(Len(attempts) - 1) : attempts[i + 1] > attempts[i]
      /\ \A i \in 1..Len(attempts) : attempts[i] <= max_timeout
      /\ (pc = "loop_while" /\ attempts # <<>>) => start_timeout > LastAttempt
      /\ (InLoopBody /\ start_timeout >= max_timeout) =>
            /\ pc \in {"loop_while", "done"}
            /\ ~Truthy(result)

C1_Witness ==
    /\ entry = "loop" /\ pc = "done" /\ kw_max.kind = "int"
    /\ start_timeout = max_timeout
    /\ Len(attempts) >= 2
    /\ ~Truthy(result)

\* C2: when func returns or is interrupted at each invocation, the call
\* loop_func_with_timeout(func, timeout=t, max_timeout=m) eventually returns,
\* and func is invoked at most m - t times.
C2_Terminates ==
    /\ [](InLoopBody => Len(attempts) <= max_timeout - timeout)
    /\ <>(pc = "done" \/ exc # "none")

C2_Witness ==
    /\ entry = "loop" /\ pc = "done" /\ kw_max.kind = "int"
    /\ Len(attempts) = max_timeout - timeout
    /\ Len(attempts) >= 2
    /\ need > rf_timeout

\* C3: run_func_with_timeout(func, timeout=t), t > 0: func completing before
\* t seconds have elapsed gives func's return value; func not complete after
\* t seconds is interrupted (it never runs past t) and the call gives None.
RunReturned == pc = "run_exit" \/ (entry = "run" /\ pc = "done")
C3_RunFuncWithTimeout ==
    /\ pc = "func" => elapsed <= rf_timeout
    /\ (RunReturned /\ need < rf_timeout) => rf_result = ret
    /\ (RunReturned /\ need > rf_timeout) => rf_result = "None"

C3_Witness ==
    /\ entry = "run" /\ pc = "done"
    /\ need > rf_timeout /\ ret = "Success"
    /\ elapsed = rf_timeout /\ rf_result = "None"

\* C4: loop_func_with_timeout returns the value of the first attempt that
\* succeeds, and None whenever no attempt succeeds before max_timeout, also
\* for a func that returns a falsy value other than None.
C4_ReturnsValueOrNone ==
    (entry = "loop" /\ pc = "done") =>
        \/ Truthy(rf_result) /\ result = rf_result
        \/ result = "None"

\* C20: no alarm is left pending once run_func_with_timeout is exited, on
\* every exit path (normal return, timeout, another exception propagating):
\* an alarm is scheduled only while func runs inside the call, so no
\* TimeoutException is delivered to code that runs after the call returned.
C20_NoAlarmLeftPending == alarm_on => pc = "func"
\* func raised before its deadline and the exception left the call
C20_Witness ==
    /\ pc = "raised" /\ exc = "FuncError"
    /\ elapsed < LastAttempt /\ ~alarm_on

----------------------------------------------------------------------------
(* shared/factor_help.py                                                   *)

RECURSIVE Product(_)
Product(s) == IF s = <<>> THEN 1 ELSE Head(s) * Product(Tail(s))

\* sage's is_prime
is_prime(x) == x > 1 /\ \A d \in 2..(x - 1) : x % d # 0

all_prime(s) == \A i \in 1..Len(s) : is_prime(s[i])

\* ecm.factor(x): the prime factors of x, ascending, with multiplicity
RECURSIVE ecm_factor(_)
ecm_factor(x) ==
    IF x < 2 THEN <<>>
    ELSE LET d == CHOOSE d \in 2..x : x % d = 0 /\ \A e \in 2..(d - 1) : x % e # 0
         IN  <<d>> \o ecm_factor(x \div d)

\* list.remove(x): drops the first occurrence of x
RECURSIVE list_remove(_, _)
list_remove(s, x) ==
    IF s = <<>> THEN <<>>
    ELSE IF Head(s) = x THEN Tail(s)
    ELSE <<Head(s)>> \o list_remove(Tail(s), x)

RECURSIVE Power(_, _)
Power(k, v) == IF v = 0 THEN 1 ELSE k * Power(k, v - 1)

RECURSIVE sorted(_)
sorted(s) ==
    IF s = <<>> THEN <<>>
    ELSE LET i == CHOOSE i \in 1..Len(s) : \A j \in 1..Len(s) : s[i] <= s[j]
         IN  <<s[i]>> \o sorted(SubSeq(s, 1, i - 1) \o SubSeq(s, i + 1, Len(s)))

\* Counter(fac_list).items(), in first-occurrence order
RECURSIVE counter_keys(_)
counter_keys(s) ==
    IF s = <<>> THEN <<>>
    ELSE <<Head(s)>> \o counter_keys(SelectSeq(Tail(s), LAMBDA y : y # Head(s)))

\* lines 101-112
fact_dict(fac_list) ==
    LET keys == counter_keys(fac_list)
        count(k) == Len(SelectSeq(fac_list, LAMBDA y : y = k))
    IN  sorted([i \in 1..Len(keys) |-> Power(keys[i], count(keys[i]))])

RECURSIVE SeqsUpTo(_, _)
SeqsUpTo(S, n) ==
    IF n = 0 THEN {<<>>}
    ELSE LET shorter == SeqsUpTo(S, n - 1)
         IN  shorter \cup {Append(s, e) : s \in shorter, e \in S}

\* what factor_factordb can answer: factors (prime or not) whose product is
\* N, or [] when the connection fails (lines 58-60)
FdbAnswers == SeqsUpTo(2..MaxFactor, MaxFdbLen)

\* get_factors(N, timeout, max_timeout, factor_dict) is called
InitFactor ==
    /\ f_pc = "start"
    /\ fdb \in FdbAnswers
    /\ N = IF fdb = <<>> THEN MaxFactor ELSE Product(fdb)
    /\ factor_dict \in BOOLEAN
    /\ factors = <<>> /\ idx = 0 /\ X = 0 /\ f_ret = <<>>
    /\ ecm_failed = FALSE
    /\ entry = "none" /\ pc = "idle"
    /\ timeout = 1
    /\ kw_max \in {[kind |-> "none", val |-> 0]}
                  \cup {[kind |-> "int", val |-> m] : m \in {1, 3}}
    /\ start_timeout = 0 /\ max_timeout = 0 /\ rf_timeout = 0
    /\ alarm_on = FALSE /\ alarm_left = 0 /\ elapsed = 0 /\ need = 0
    /\ ret = "None" /\ rf_result = "None" /\ result = "None" /\ exc = "none"
    /\ attempts = <<>>

\* lines 128-130: the FactorDB answer, returned as it is when all of it is prime
factor_factordb ==
    /\ f_pc = "start"
    /\ factors' = fdb
    /\ idx' = 0
    /\ f_pc' = IF all_prime(fdb) THEN "return" ELSE "for"
    /\ UNCHANGED <<N, fdb, factor_dict, X, f_ret, ecm_failed, tvars, cvars,
                   gvars, ovars, avars>>

\* line 131: the list iterator yields the element at its position, or the loop
\* ends (line 139); lines 132-133: a composite element goes to ECM under
\* loop_func_with_timeout(ecm.factor, X, timeout=timeout, max_timeout=max_timeout)
for_X_in_factors ==
    /\ f_pc = "for"
    /\ IF idx < Len(factors)
         THEN /\ X' = factors[idx + 1]
              /\ idx' = idx + 1
              /\ IF is_prime(X')
                   THEN f_pc' = "for" /\ UNCHANGED <<entry, pc>>
                   ELSE f_pc' = "ecm" /\ entry' = "ecm" /\ pc' = "loop_entry"
         ELSE /\ f_pc' = "return"
              /\ UNCHANGED <<X, idx, entry, pc>>
    /\ UNCHANGED <<N, fdb, factor_dict, factors, f_ret, ecm_failed, timeout, kw_max,
                   start_timeout, max_timeout, rf_timeout, alarm_on, alarm_left,
                   elapsed, need, ret, rf_result, result, exc, attempts, cvars, gvars,
                   ovars, avars>>

\* ecm_result with line 137 left out: X stays in the list next to its factors
ecm_result_without_remove ==
    /\ f_pc = "ecm"
    /\ pc \in {"done", "raised"}
    /\ IF pc = "raised"
         THEN f_pc' = "raised" /\ factors' = factors
              /\ ecm_failed' = ecm_failed
         ELSE /\ f_pc' = "for"
              /\ factors' = IF ~Truthy(result) THEN factors
                            ELSE factors \o ecm_factor(X)
              /\ ecm_failed' = (ecm_failed \/ ~Truthy(result))
    /\ TimedReset
    /\ UNCHANGED <<N, fdb, factor_dict, idx, X, f_ret, timeout, kw_max, cvars,
                   gvars, ovars, avars>>

\* lines 133-138: additional_factors is what the retry loop returned; when it
\* is falsy X stays, else X is removed and its factors are appended
ecm_result ==
    /\ f_pc = "ecm"
    /\ pc \in {"done", "raised"}
    /\ IF pc = "raised"
         THEN f_pc' = "raised" /\ factors' = factors
              /\ ecm_failed' = ecm_failed
         ELSE /\ f_pc' = "for"
              /\ factors' = IF ~Truthy(result) THEN factors
                            ELSE list_remove(factors, X) \o ecm_factor(X)
              /\ ecm_failed' = (ecm_failed \/ ~Truthy(result))
    /\ TimedReset
    /\ UNCHANGED <<N, fdb, factor_dict, idx, X, f_ret, timeout, kw_max, cvars,
                   gvars, ovars, avars>>

\* lines 173-176: get_factors returns factor_integer's list, with its
\* fact_dict form when asked to
get_factors ==
    /\ f_pc = "return"
    /\ f_ret' = IF factor_dict THEN <<factors, fact_dict(factors)>> ELSE factors
    /\ f_pc' = "done"
    /\ UNCHANGED <<N, fdb, factor_dict, factors, idx, X, ecm_failed, tvars, cvars,
                   gvars, ovars, avars>>

\* the factor list get_factors returned
ReturnedFactors == IF factor_dict THEN f_ret[1] ELSE f_ret

InitF == InitFactor /\ CurveIdle /\ GeneratorIdle /\ OuterIdle /\ AttackIdle
\* ecm.factor runs under the retry loop of run_timeouts.py; it returns its
\* factor list or is interrupted, it does not raise
NextF ==
    \/ factor_factordb
    \/ for_X_in_factors
    \/ ecm_result
    \/ get_factors
    \/ loop_func_with_timeout
    \/ loop_while
    \/ run_func_with_timeout
    \/ func_tick
    \/ func_returns
    \/ timeout_handler
    \/ loop_check
SpecF == InitF /\ [][NextF]_vars

\* C5: whatever get_factors(N, timeout, max_timeout) returns is a complete
\* factorization (every element prime, product N) or the empty "unknown"
\* answer; a list that still holds a composite is never returned.
C5_CompleteOrUnknown ==
    f_pc = "done" =>
        \/ ReturnedFactors = <<>>
        \/ all_prime(ReturnedFactors) /\ Product(ReturnedFactors) = N

\* C18: factor_integer submits every composite element of FactorDB's list to
\* ECM: when ECM succeeded on each composite it was given, every element of
\* the returned list is prime, whatever the initial list (two or more
\* composites, adjacent or not).
C18_EveryCompositeSubmitted ==
    (f_pc = "done" /\ ~ecm_failed) => all_prime(ReturnedFactors)

\* C19: factor_integer preserves the product: when FactorDB's list multiplies
\* to N (and each ECM result multiplies to the composite it replaces), the
\* list multiplies to N after every iteration of the loop and at return,
\* whether the ECM calls succeed or time out.
C19_ProductPreserved ==
    (fdb # <<>> /\ f_pc # "start") =>
        /\ Product(factors) = N
        /\ f_pc = "done" => Product(ReturnedFactors) = N
\* a run in which one ECM call timed out and another one succeeded
C19_Witness ==
    /\ f_pc = "done" /\ ecm_failed
    /\ Len(ReturnedFactors) > Len(fdb)

----------------------------------------------------------------------------
(* tests/small_p/server_test_small_p.py, tests/big_p/server_test_big_p.py  *)
(* (the same code over two fields)                                         *)

FieldPrimes == {5, 7}
Curves == UNION {[a : 0..(q - 1), b : 1..(q - 1), p : {q}] : q \in FieldPrimes}
Points(q) == (0..(q - 1)) \X (0..(q - 1))
Libs == {"pow", "euclid"}

Point(pt) == [kind |-> "point", pt |-> pt]
Raise == [kind |-> "raise", pt |-> <<0, 0>>]
None == [kind |-> "None", pt |-> <<0, 0>>]

\* the extended Euclid loop of Crypto.Util.number.inverse: <<u1, u3>> when
\* v3 has reached 0
RECURSIVE euclid(_, _, _, _)
euclid(u3, v3, u1, v1) ==
    IF v3 > 0
      THEN LET q == u3 \div v3
           IN  euclid(v3, u3 - v3 * q, v1, u1 - v1 * q)
      ELSE <<u1, u3>>

RECURSIVE while_negative(_, _)
while_negative(u1, v) == IF u1 < 0 THEN while_negative(u1 + v, v) ELSE u1

\* Crypto.Util.number.inverse(u, v), v > 0. The releases differ when u has no
\* inverse: the ones built on pow(u, -1, v) (and the ones that test the gcd)
\* raise ValueError, the older ones return the Euclid coefficient as it is.
inverse(u, v, l) ==
    LET r == euclid(u, v, 1, 0)
    IN  IF l = "pow" /\ r[2] # 1
          THEN [ok |-> FALSE, val |-> 0]
          ELSE [ok |-> TRUE, val |-> while_negative(r[1], v)]

\* lines 15-33
add(P, Q, E0, l) ==
    IF P = <<0, 0>> THEN Point(Q)
    ELSE IF Q = <<0, 0>> THEN Point(P)
    ELSE
      LET Ea == E0.a
          Ep == E0.p
          x1 == P[1]
          y1 == P[2]
          x2 == Q[1]
          y2 == Q[2]
      IN  IF x1 = x2 /\ y1 = -y2 THEN Point(<<0, 0>>)
          ELSE
            LET inv == IF P # Q THEN inverse(x2 - x1, Ep, l)
                                ELSE inverse(2 * y1, Ep, l)
                lam == IF P # Q THEN (y2 - y1) * inv.val
                                ELSE (3 * (x1 * x1) + Ea) * inv.val
                x3 == ((lam * lam) - x1 - x2) % Ep
                y3 == (lam * (x1 - x3) - y1) % Ep
            IN  IF inv.ok THEN Point(<<x3, y3>>) ELSE Raise

\* lines 39-44: the while loop, from the state (Q, R, n)
RECURSIVE multiply_loop(_, _, _, _, _)
multiply_loop(Q, R, n, E0, l) ==
    IF n > 0
      THEN LET R1 == IF n % 2 = 1 THEN add(R, Q, E0, l) ELSE Point(R)
               Q1 == add(Q, Q, E0, l)
           IN  IF R1.kind = "raise" \/ Q1.kind = "raise" THEN Raise
               ELSE multiply_loop(Q1.pt, R1.pt, n \div 2, E0, l)
      ELSE Point(R)

\* lines 36-44
multiply(P, n, E0, l) == multiply_loop(P, <<0, 0>>, n, E0, l)

\* what a client may send: a pair of integers, or something that
\* x, y = [int(i) for i in C] rejects (wrong length, a non-integer item)
OracleInputs(q) ==
    {[shape |-> "pair", x |-> pt[1], y |-> pt[2]] : pt \in Points(q)}
    \cup {[shape |-> sh, x |-> 0, y |-> 0] : sh \in {"wrong_length", "non_integer"}}

\* server_oracle with a curve-membership test before the multiplication
server_oracle_validating(C, E0, s, l) ==
    IF C.shape # "pair" THEN None
    ELSE IF <<C.x, C.y>> # <<0, 0>>
            /\ (C.y * C.y) % E0.p
                 # (C.x * C.x * C.x + E0.a * C.x + E0.b) % E0.p THEN None
    ELSE LET S == multiply(<<C.x, C.y>>, s, E0, l)
         IN  IF S.kind = "raise" THEN None ELSE S

\* lines 46-52
server_oracle(C, E0, s, l) ==
    IF C.shape # "pair" THEN None
    ELSE LET S == multiply(<<C.x, C.y>>, s, E0, l)
         IN  IF S.kind = "raise" THEN None ELSE S

\* lines 6-13: a server is set up
InitCurve ==
    /\ E \in Curves
    /\ secret \in 0..MaxScalar
    /\ lib \in Libs
    /\ c_op = "none" /\ c_P = <<0, 0>> /\ c_Q = <<0, 0>> /\ c_n = 0
    /\ c_C = [shape |-> "pair", x |-> 0, y |-> 0]
    /\ c_out = None

call_add ==
    /\ c_op = "none"
    /\ \E P \in Points(E.p), Q \in Points(E.p) :
          /\ c_P' = P /\ c_Q' = Q
          /\ c_out' = add(P, Q, E, lib)
    /\ c_op' = "add"
    /\ UNCHANGED <<E, secret, lib, c_n, c_C, tvars, fvars, gvars,
                   ovars, avars>>

call_multiply ==
    /\ c_op = "none"
    /\ \E P \in Points(E.p), n \in 0..MaxScalar :
          /\ c_P' = P /\ c_n' = n
          /\ c_out' = multiply(P, n, E, lib)
    /\ c_op' = "multiply"
    /\ UNCHANGED <<E, secret, lib, c_Q, c_C, tvars, fvars, gvars,
                   ovars, avars>>

call_server_oracle ==
    /\ c_op = "none"
    /\ \E C \in OracleInputs(E.p) :
          /\ c_C' = C
          /\ c_out' = server_oracle(C, E, secret, lib)
    /\ c_op' = "server_oracle"
    /\ UNCHANGED <<E, secret, lib, c_P, c_Q, c_n, tvars, fvars, gvars,
                   ovars, avars>>

InitC == InitCurve /\ TimedIdle /\ FactorIdle /\ GeneratorIdle /\ OuterIdle
         /\ AttackIdle
NextC ==
    \/ call_add
    \/ call_multiply
    \/ call_server_oracle
SpecC == InitC /\ [][NextC]_vars

----------------------------------------------------------------------------
(* Claims about the server's arithmetic. The group law of the field and a, *)
(* written from its definition, is what the claims compare the code with.  *)

neg(P, q) == <<P[1], (q - P[2]) % q>>
field_inverse(u, q) == CHOOSE i \in 0..(q - 1) : (u * i) % q = 1 \/ u % q = 0

group_add(P, Q, E0) ==
    IF P = <<0, 0>> THEN Q
    ELSE IF Q = <<0, 0>> THEN P
    ELSE IF P[1] = Q[1] /\ (P[2] + Q[2]) % E0.p = 0 THEN <<0, 0>>
    ELSE LET q == E0.p
             lam == IF P # Q
                      THEN (Q[2] - P[2]) * field_inverse(Q[1] - P[1], q)
                      ELSE (3 * P[1] * P[1] + E0.a) * field_inverse(2 * P[2], q)
             x3 == (lam * lam - P[1] - Q[1]) % q
         IN  <<x3, (lam * (P[1] - x3) - P[2]) % q>>

\* P added to itself n times
RECURSIVE n_times(_, _, _)
n_times(P, n, E0) ==
    IF n = 0 THEN <<0, 0>> ELSE group_add(n_times(P, n - 1, E0), P, E0)

is_on_curve(P, E0) ==
    (P[2] * P[2]) % E0.p = (P[1] * P[1] * P[1] + E0.a * P[1] + E0.b) % E0.p

\* C6: add(P, Q, E) is the identity (0,0) whenever Q = (x, (p - y) mod p) is
\* the inverse of P = (x, y), and (0,0) is the identity on both sides.
C6_AddInverseAndIdentity ==
    c_op = "add" =>
        /\ c_Q = neg(c_P, E.p) => c_out = Point(<<0, 0>>)
        /\ c_P = <<0, 0>> => c_out = Point(c_Q)
        /\ c_Q = <<0, 0>> => c_out = Point(c_P)

\* C7: multiply(P, n, E) is (0,0) for n = 0 and, for n > 0, the point that
\* adding P to itself n times gives under the group law of (p, a), also when
\* n is a multiple of the order of P.
C7_MultiplyIsScalarMultiplication ==
    c_op = "multiply" => c_out = Point(n_times(c_P, c_n, E))

\* C8: server_oracle(C) never raises; it returns None or the pair of field
\* elements secret * C.
C8_OracleReturnsProductOrNone ==
    c_op = "server_oracle" =>
        \/ c_out = None
        \/ /\ c_C.shape = "pair"
           /\ c_out = Point(n_times(<<c_C.x, c_C.y>>, secret, E))
           /\ c_out.pt \in Points(E.p)

\* C9: what server_oracle returns does not depend on the coefficient b: with
\* any other b in E it returns the same value for the same C, so a point off
\* the curve of the expected b is processed like one on it.
C9_OracleIgnoresB ==
    c_op = "server_oracle" =>
        \A b2 \in 0..(E.p - 1) :
            server_oracle(c_C, [E EXCEPT !.b = b2], secret, lib) = c_out

C9_Witness ==
    /\ c_op = "server_oracle" /\ c_C.shape = "pair"
    /\ ~is_on_curve(<<c_C.x, c_C.y>>, E)
    /\ secret >= 2
    /\ c_out.kind = "point" /\ c_out.pt # <<0, 0>>
    /\ c_out.pt = n_times(<<c_C.x, c_C.y>>, secret, E)

----------------------------------------------------------------------------
(* InvalidCurveGenerator.generate_curves, the method that                  *)
(* tests/small_p/test_invalid_curve_generator_small_p.py exercises, after  *)
(* the algorithm of the design (steps 1-6).                                *)

in_range(b, q) == 0 < b /\ b < q

is_singular(a, b, q) == (4 * a * a * a + 27 * b * b) % q = 0

\* the exact group order: the affine points and the point at infinity
curve_order(a, b, q) ==
    1 + Cardinality({pt \in Points(q) : is_on_curve(pt, [a |-> a, b |-> b, p |-> q])})

\* the prime -> exponent mapping of the factor list fs
factor_mapping(fs) ==
    LET primes == {fs[i] : i \in 1..Len(fs)}
    IN  [r \in primes |-> Cardinality({i \in 1..Len(fs) : fs[i] = r})]

curve_record(a, b, q, fs) ==
    [b |-> b, order |-> curve_order(a, b, q), factors |-> factor_mapping(fs)]

\* a factorization of n that is verified complete: primes that multiply to n
is_complete(fs, n) == fs # <<>> /\ all_prime(fs) /\ Product(fs) = n

\* what FactorDB can answer for n: two factors that multiply to n, the prime
\* factors of n, n itself, or [] when the connection fails
FdbAnswersFor(n) ==
    {<<d, n \div d>> : d \in {e \in 2..(n - 1) : n % e = 0}}
    \cup {ecm_factor(n), <<n>>, <<>>}

\* get_factors has returned to generate_curves and its frame is gone
FactorReset ==
    /\ f_pc' = "idle" /\ N' = 0 /\ fdb' = <<>> /\ factor_dict' = FALSE
    /\ factors' = <<>> /\ idx' = 0 /\ X' = 0 /\ f_ret' = <<>>
    /\ ecm_failed' = FALSE
    /\ timeout' = 0 /\ kw_max' = [kind |-> "absent", val |-> 0]

\* generate_curves(b_values=L) or generate_curves(target=n) is called
InitGenerator ==
    /\ g_pc = "called"
    /\ g_field \in UNION {[p : {q}, a : 0..(q - 1)] : q \in FieldPrimes}
    /\ \/ /\ g_b_values \in SeqsUpTo((-1)..(g_field.p + 1), MaxBValues) \ {<<>>}
          /\ g_target = 0
       \/ /\ g_b_values = <<>>
          /\ g_target \in 1..MaxTarget
    /\ g_i = 0 /\ g_b = 0 /\ g_curves = <<>>
    /\ g_work = [curves |-> 0, orders |-> 0, factorizations |-> 0]
    /\ g_exc = "none"

\* generate_curves whose validation forgets the lower end of 0 < b < p
generate_curves_upper_bound_only ==
    /\ g_pc = "called"
    /\ IF \E i \in 1..Len(g_b_values) : ~(g_b_values[i] < g_field.p)
         THEN g_pc' = "raised" /\ g_exc' = "ValueError"
         ELSE g_pc' = "search" /\ g_exc' = g_exc
    /\ UNCHANGED <<g_field, g_b_values, g_target, g_i, g_b, g_curves, g_work,
                   tvars, fvars, cvars, ovars, avars>>

\* step 1: explicit b values are validated before any curve is constructed;
\* one out of 0 < b < p is an input-validation error (ValueError)
generate_curves ==
    /\ g_pc = "called"
    /\ IF \E i \in 1..Len(g_b_values) : ~in_range(g_b_values[i], g_field.p)
         THEN g_pc' = "raised" /\ g_exc' = "ValueError"
         ELSE g_pc' = "search" /\ g_exc' = g_exc
    /\ UNCHANGED <<g_field, g_b_values, g_target, g_i, g_b, g_curves, g_work,
                   tvars, fvars, cvars, ovars, avars>>

\* Candidates of a random search that does not stop at the target count
Candidates_ignoring_target ==
    IF g_b_values # <<>>
      THEN IF g_i < Len(g_b_values) THEN {g_b_values[g_i + 1]} ELSE {}
      ELSE IF g_i < MaxTries THEN 1..(g_field.p - 1) ELSE {}

\* the next candidate b: the next explicit value, or a draw from (0, p)
Candidates ==
    IF g_b_values # <<>>
      THEN IF g_i < Len(g_b_values) THEN {g_b_values[g_i + 1]} ELSE {}
      ELSE IF g_i < MaxTries /\ Len(g_curves) < g_target
             THEN 1..(g_field.p - 1) ELSE {}

\* step 2: a singular curve is rejected
reject_singular ==
    /\ g_pc = "search"
    /\ \E b \in Candidates :
          /\ is_singular(g_field.a, b, g_field.p)
          /\ g_i' = g_i + 1
          /\ g_work' = [g_work EXCEPT !.curves = @ + 1]
    /\ UNCHANGED <<g_pc, g_field, g_b_values, g_target, g_b, g_curves, g_exc,
                   tvars, fvars, cvars, ovars, avars>>

\* steps 3-4: the order of the curve is counted and handed to the Factorizer:
\* get_factors(order, timeout, timeout_max) of factor_help.py, with the
\* integer budgets the generator was constructed with
factor_order ==
    /\ g_pc = "search"
    /\ \E b \in Candidates :
          /\ ~is_singular(g_field.a, b, g_field.p)
          /\ g_b' = b
          /\ N' = curve_order(g_field.a, b, g_field.p)
    /\ g_i' = g_i + 1
    /\ g_work' = [curves |-> g_work.curves + 1,
                  orders |-> g_work.orders + 1,
                  factorizations |-> g_work.factorizations + 1]
    /\ fdb' \in FdbAnswersFor(N')
    /\ f_pc' = "start" /\ factor_dict' = FALSE
    /\ timeout' = 1 /\ kw_max' = [kind |-> "int", val |-> 3]
    /\ g_pc' = "factoring"
    /\ UNCHANGED <<g_field, g_b_values, g_target, g_curves, g_exc, factors,
                   idx, X, f_ret, ecm_failed, entry, pc, start_timeout,
                   max_timeout, rf_timeout, alarm_on, alarm_left, elapsed,
                   need, ret, rf_result, result, exc, attempts, cvars, ovars,
                   avars>>

\* steps 4-5: the factorization is verified complete and the curve recorded
accept_curve ==
    /\ g_pc = "factoring"
    /\ f_pc = "done"
    /\ is_complete(ReturnedFactors, N)
    /\ g_curves' = Append(g_curves, curve_record(g_field.a, g_b, g_field.p,
                                                 ReturnedFactors))
    /\ g_pc' = "search" /\ g_b' = 0
    /\ FactorReset
    /\ UNCHANGED <<g_field, g_b_values, g_target, g_i, g_work, g_exc, entry,
                   pc, start_timeout, max_timeout, rf_timeout, alarm_on,
                   alarm_left, elapsed, need, ret, rf_result, result, exc,
                   attempts, cvars, ovars, avars>>

\* discard_candidate treating the failed factorization as fatal
discard_candidate_fatal ==
    /\ g_pc = "factoring"
    /\ f_pc = "done"
    /\ ~is_complete(ReturnedFactors, N)
    /\ g_pc' = "raised" /\ g_exc' = "FactorizationError" /\ g_b' = 0
    /\ FactorReset
    /\ UNCHANGED <<g_field, g_b_values, g_target, g_i, g_curves, g_work,
                   entry, pc, start_timeout, max_timeout, rf_timeout, alarm_on,
                   alarm_left, elapsed, need, ret, rf_result, result, exc,
                   attempts, cvars, ovars, avars>>

\* step 4: the factorization stalled (ECM timed out at the ceiling) or came
\* back incomplete or empty; the candidate is discarded and the search goes on
discard_candidate ==
    /\ g_pc = "factoring"
    /\ f_pc = "done"
    /\ ~is_complete(ReturnedFactors, N)
    /\ g_pc' = "search" /\ g_b' = 0
    /\ FactorReset
    /\ UNCHANGED <<g_field, g_b_values, g_target, g_i, g_curves, g_work, g_exc,
                   entry, pc, start_timeout, max_timeout, rf_timeout, alarm_on,
                   alarm_left, elapsed, need, ret, rf_result, result, exc,
                   attempts, cvars, ovars, avars>>

\* step 6: the candidates are used up or the target is reached; the catalog
\* collected so far is returned
return_curves ==
    /\ g_pc = "search"
    /\ Candidates = {}
    /\ g_pc' = "done"
    /\ UNCHANGED <<g_field, g_b_values, g_target, g_i, g_b, g_curves, g_work,
                   g_exc, tvars, fvars, cvars, ovars, avars>>

InitG == InitGenerator /\ TimedIdle /\ FactorIdle /\ CurveIdle /\ OuterIdle
         /\ AttackIdle
NextG ==
    \/ generate_curves
    \/ reject_singular
    \/ factor_order
    \/ accept_curve
    \/ discard_candidate
    \/ return_curves
    \/ factor_factordb
    \/ for_X_in_factors
    \/ ecm_result
    \/ get_factors
    \/ loop_func_with_timeout
    \/ loop_while
    \/ run_func_with_timeout
    \/ func_tick
    \/ func_returns
    \/ timeout_handler
    \/ loop_check
SpecG == InitG /\ [][NextG]_vars

\* C10: generate_curves with an explicit b_values list holding a value
\* outside 0 < b < p fails with ValueError at once: no curve is constructed,
\* no order counted, no factorization tried, and no catalog is returned.
HasInvalidB == \E i \in 1..Len(g_b_values) : ~(0 < g_b_values[i] /\ g_b_values[i] < g_field.p)
C10_InvalidBRaisesFirst ==
    HasInvalidB =>
        /\ g_pc \in {"called", "raised"}
        /\ g_pc = "raised" => g_exc = "ValueError"
        /\ g_work = [curves |-> 0, orders |-> 0, factorizations |-> 0]
        /\ g_curves = <<>>

C10_Witness ==
    /\ g_pc = "raised" /\ g_exc = "ValueError"
    /\ Len(g_b_values) = 2
    /\ in_range(g_b_values[1], g_field.p)
    /\ g_b_values[2] \in {-1, 0, g_field.p + 1}
    /\ g_work.curves = 0 /\ g_curves = <<>>

\* the record's factors are the prime -> exponent mapping of its order
CompletelyFactored(c) == c.factors = factor_mapping(ecm_factor(c.order))
\* a record of the catalog: b in range, the exact order, and its factors
WellFormedRecord(c) ==
    /\ DOMAIN c = {"b", "order", "factors"}
    /\ in_range(c.b, g_field.p)
    /\ c.order = curve_order(g_field.a, c.b, g_field.p)
    /\ CompletelyFactored(c)

\* C15: during generate_curves a factorization that times out at the ceiling
\* or comes back incomplete never terminates the run: the candidate is
\* discarded (the catalog holds completely factored curves only) and the
\* search goes on until the candidates are used up or the target is reached;
\* the only error that ends a run is the validation error raised before any
\* factorization.
C15_FactorizationFailureSkips ==
    /\ \A i \in 1..Len(g_curves) : CompletelyFactored(g_curves[i])
    /\ g_pc = "raised" => g_exc = "ValueError" /\ g_work.factorizations = 0
    /\ g_pc = "done" => Candidates = {}
    /\ g_pc \in {"called", "search", "factoring", "done", "raised"}
\* the first of two listed candidates was discarded, the second one recorded
C15_Witness ==
    /\ g_pc = "done" /\ Len(g_b_values) = 2
    /\ g_work.factorizations = 2
    /\ Len(g_curves) = 1 /\ g_curves[1].b = g_b_values[2]

Requested == IF g_b_values # <<>> THEN Len(g_b_values) ELSE g_target

----------------------------------------------------------------------------
(* run_func_with_timeout around a func that itself makes a timed call, as   *)
(* safe_factorization does around a factorization that runs ECM under       *)
(* loop_func_with_timeout. The process has one SIGALRM alarm: alarm_on and  *)
(* alarm_left are shared by the outer and the inner call.                   *)

\* the outer func does some work of its own, makes one timed call (entry,
\* timeout, kw_max are that call's arguments), and works again
InitNested ==
    /\ o_pc = "entry"
    /\ o_timeout \in 1..MaxOuterTimeout
    /\ o_elapsed = 0 /\ o_work = 0 /\ o_result = "None"
    /\ entry \in {"loop", "run"}
    /\ timeout \in 1..MaxTimeout
    /\ kw_max \in {[kind |-> "absent", val |-> 0]}
                  \cup {[kind |-> "int", val |-> m] : m \in 2..MaxCeiling}
    /\ entry = "run" => kw_max.kind = "absent"
    /\ pc = "idle"
    /\ start_timeout = 0 /\ max_timeout = 0
    /\ rf_timeout = IF entry = "run" THEN timeout ELSE 0
    /\ alarm_on = FALSE /\ alarm_left = 0 /\ elapsed = 0 /\ need = 0
    /\ ret = "None" /\ rf_result = "None" /\ result = "None" /\ exc = "none"
    /\ attempts = <<>>

\* lines 71-78 of the outer call: signal.alarm(timeout), and func starts
outer_run_func_with_timeout ==
    /\ o_pc = "entry"
    /\ alarm_on' = TRUE /\ alarm_left' = o_timeout
    /\ o_elapsed' = 0
    /\ o_work' \in 0..MaxOwnWork
    /\ o_pc' = "own"
    /\ UNCHANGED <<o_timeout, o_result, entry, timeout, kw_max, pc,
                   start_timeout, max_timeout, rf_timeout, elapsed, need, ret,
                   rf_result, result, exc, attempts>>
    /\ UNCHANGED <<fvars, cvars, gvars, avars>>

\* one second passes in the outer func's own code
outer_func_tick ==
    /\ o_pc \in {"own", "after"}
    /\ o_work > 0
    /\ ~(alarm_on /\ alarm_left = 0)
    /\ o_work' = o_work - 1
    /\ o_elapsed' = o_elapsed + 1
    /\ alarm_left' = IF alarm_on THEN alarm_left - 1 ELSE alarm_left
    /\ UNCHANGED <<o_pc, o_timeout, o_result, entry, timeout, kw_max, pc,
                   start_timeout, max_timeout, rf_timeout, alarm_on, elapsed,
                   need, ret, rf_result, result, exc, attempts>>
    /\ UNCHANGED <<fvars, cvars, gvars, avars>>

\* the outer func calls loop_func_with_timeout or run_func_with_timeout
outer_func_calls ==
    /\ o_pc = "own"
    /\ o_work = 0
    /\ ~(alarm_on /\ alarm_left = 0)
    /\ o_pc' = "inner"
    /\ pc' = IF entry = "loop" THEN "loop_entry" ELSE "run_entry"
    /\ UNCHANGED <<o_timeout, o_elapsed, o_work, o_result, entry, timeout,
                   kw_max, start_timeout, max_timeout, rf_timeout, alarm_on,
                   alarm_left, elapsed, need, ret, rf_result, result, exc,
                   attempts>>
    /\ UNCHANGED <<fvars, cvars, gvars, avars>>

\* the inner call returned: the outer func goes on with its own code
outer_func_resumes ==
    /\ o_pc = "inner"
    /\ pc = "done"
    /\ o_pc' = "after"
    /\ o_work' \in 0..MaxOwnWork
    /\ UNCHANGED <<o_timeout, o_elapsed, o_result>>
    /\ UNCHANGED <<tvars, fvars, cvars, gvars, avars>>

\* line 78 of the outer call completes with func's value; lines 81-85
outer_func_returns ==
    /\ o_pc = "after"
    /\ o_work = 0
    /\ ~(alarm_on /\ alarm_left = 0)
    /\ o_result' = "Done"
    /\ alarm_on' = FALSE /\ alarm_left' = 0
    /\ o_pc' = "done"
    /\ UNCHANGED <<o_timeout, o_elapsed, o_work, entry, timeout, kw_max, pc,
                   start_timeout, max_timeout, rf_timeout, elapsed, need, ret,
                   rf_result, result, exc, attempts>>
    /\ UNCHANGED <<fvars, cvars, gvars, avars>>

\* an exception left the inner call: it leaves the outer func and, through the
\* finally clause of lines 81-83, the outer call
outer_func_raises ==
    /\ o_pc = "inner"
    /\ pc = "raised"
    /\ alarm_on' = FALSE /\ alarm_left' = 0
    /\ o_pc' = "raised"
    /\ UNCHANGED <<o_timeout, o_elapsed, o_work, o_result, entry, timeout,
                   kw_max, pc, start_timeout, max_timeout, rf_timeout, elapsed,
                   need, ret, rf_result, result, exc, attempts>>
    /\ UNCHANGED <<fvars, cvars, gvars, avars>>

\* lines 35-46 and 79-85: SIGALRM is due while the outer func runs its own
\* code; TimeoutException reaches the outer call's except clause
outer_timeout_handler ==
    /\ o_pc \in {"own", "after"}
    /\ alarm_on /\ alarm_left = 0
    /\ o_result' = "None"
    /\ alarm_on' = FALSE /\ alarm_left' = 0
    /\ o_pc' = "done"
    /\ UNCHANGED <<o_timeout, o_elapsed, o_work, entry, timeout, kw_max, pc,
                   start_timeout, max_timeout, rf_timeout, elapsed, need, ret,
                   rf_result, result, exc, attempts>>
    /\ UNCHANGED <<fvars, cvars, gvars, avars>>

InitN == InitNested /\ FactorIdle /\ CurveIdle /\ GeneratorIdle /\ AttackIdle
NextN ==
    \/ outer_run_func_with_timeout
    \/ outer_func_tick
    \/ outer_func_calls
    \/ outer_func_resumes
    \/ outer_func_returns
    \/ outer_func_raises
    \/ outer_timeout_handler
    \/ loop_func_with_timeout
    \/ loop_while
    \/ run_func_with_timeout
    \/ func_tick
    \/ func_returns
    \/ func_raises
    \/ timeout_handler
    \/ loop_check
SpecN == InitN /\ [][NextN]_vars

\* C17: the deadline of a run_func_with_timeout call is still enforced when
\* its func itself calls run_func_with_timeout or loop_func_with_timeout: the
\* outer func never runs past the outer timeout, and an outer call whose func
\* has not completed within it is interrupted and returns None.
C17_OuterDeadlineEnforced ==
    /\ o_pc \in {"own", "inner", "after"} => o_elapsed <= o_timeout
    /\ (o_pc = "done" /\ o_elapsed > o_timeout) => o_result = "None"

----------------------------------------------------------------------------
(* AttackOrchestrator: the CRT combination of the residue records.         *)

RECURSIVE gcd(_, _)
gcd(x, y) == IF y = 0 THEN x ELSE gcd(y, x % y)

Divisors(n) == {d \in 1..n : n % d = 0}

\* the largest divisor of M that shares no prime with q
coprime_part(M, q) ==
    CHOOSE d \in Divisors(M) :
        /\ gcd(d, q) = 1
        /\ \A e \in Divisors(M) : gcd(e, q) = 1 => e <= d

\* the inverse of u modulo q, for u coprime to q
mod_inverse(u, q) == CHOOSE i \in 0..(q - 1) : (u * i) % q = 1 \/ q = 1

\* crt_pair with the inverse of modulus_acc left out
crt_pair_without_inverse(M, R, q, r) ==
    [ok |-> TRUE, modulus |-> M * q, residue |-> R + M * ((r - R) % q)]

\* the pairwise CRT step for coprime M and q: the residue below M * q that is
\* R modulo M and r modulo q
crt_pair(M, R, q, r) ==
    [ok |-> TRUE, modulus |-> M * q,
     residue |-> R + M * (((r - R) * mod_inverse(M % q, q)) % q)]

\* crt_step that combines overlapping records without comparing them
crt_step_unchecked(M, R, q, r) ==
    IF gcd(M, q) = 1 THEN crt_pair(M, R, q, r)
    ELSE LET M0 == coprime_part(M, q)
         IN  IF (M \div M0) % q = 0
               THEN [ok |-> TRUE, modulus |-> M, residue |-> R]
               ELSE crt_pair(M0, R % M0, q, r)

\* one reconciliation of (modulus_acc, residue_acc) with a new record (q, r):
\* coprime moduli are combined; moduli that share a prime must agree on the
\* overlap, and then the side that knows less of that prime is reduced to its
\* coprime part before combining
crt_step(M, R, q, r) ==
    LET g == gcd(M, q)
    IN  IF g = 1 THEN crt_pair(M, R, q, r)
        ELSE IF R % g # r % g
          THEN [ok |-> FALSE, modulus |-> M, residue |-> R]
          ELSE LET M0 == coprime_part(M, q)
               IN  IF (M \div M0) % q = 0
                     THEN [ok |-> TRUE, modulus |-> M, residue |-> R]
                     ELSE crt_pair(M0, R % M0, q, r)

\* the prime powers up to n: the orders a subgroup point may have
PrimePowers(n) ==
    {q \in 2..n : \E r \in 2..q : is_prime(r) /\ \A d \in Divisors(q) \ {1} : d % r = 0}

\* residue records for a secret s: the right residue, or one that is off by
\* one (a corrupted catalog, an oracle that is no fixed-scalar multiplier)
RecordsFor(s) ==
    {[modulus |-> q, residue |-> (s + e) % q] : q \in PrimePowers(MaxModulus), e \in {0, 1}}

\* the residue records are there and are about to be combined
InitCRT ==
    /\ a_pc = "combine"
    /\ secret \in 0..MaxSecret
    /\ a_bound \in secret..MaxSecret
    /\ a_records \in SeqsUpTo(RecordsFor(secret), MaxRecords)
    /\ a_catalog = <<>> /\ a_i = 0 /\ a_answers = <<>>
    /\ a_k = 0 /\ a_M = 1 /\ a_R = 0
    /\ a_result = [kind |-> "none", val |-> 0]
    /\ E = [a |-> 0, b |-> 0, p |-> 0] /\ lib = "pow"
    /\ c_op = "none" /\ c_P = <<0, 0>> /\ c_Q = <<0, 0>> /\ c_n = 0
    /\ c_C = [shape |-> "pair", x |-> 0, y |-> 0]
    /\ c_out = None

\* the next record is reconciled with (modulus_acc, residue_acc); records
\* that disagree end the run with a consistency failure
crt_combine ==
    /\ a_pc = "combine"
    /\ a_k < Len(a_records)
    /\ LET rec == a_records[a_k + 1]
           acc == crt_step(a_M, a_R, rec.modulus, rec.residue)
       IN  IF acc.ok
             THEN /\ a_M' = acc.modulus /\ a_R' = acc.residue
                  /\ a_k' = a_k + 1
                  /\ UNCHANGED <<a_pc, a_result>>
             ELSE /\ a_pc' = "done"
                  /\ a_result' = [kind |-> "inconsistent", val |-> 0]
                  /\ UNCHANGED <<a_M, a_R, a_k>>
    /\ UNCHANGED <<a_catalog, a_bound, a_i, a_answers, a_records>>
    /\ UNCHANGED <<tvars, fvars, cvars, gvars, ovars>>

\* all records are combined: the integer when modulus_acc exceeds the bound
\* on the secret, else the list of residue records
run_attack_returns ==
    /\ a_pc = "combine"
    /\ a_k = Len(a_records)
    /\ a_pc' = "done"
    /\ a_result' = IF a_M > a_bound THEN [kind |-> "secret", val |-> a_R]
                   ELSE [kind |-> "partial", val |-> 0]
    /\ UNCHANGED <<a_catalog, a_bound, a_i, a_answers, a_records, a_k, a_M, a_R>>
    /\ UNCHANGED <<tvars, fvars, cvars, gvars, ovars>>

InitR == InitCRT /\ TimedIdle /\ FactorIdle /\ GeneratorIdle /\ OuterIdle
NextR ==
    \/ crt_combine
    \/ run_attack_returns
SpecR == InitR /\ [][NextR]_vars

RECURSIVE ModulusProduct(_)
ModulusProduct(k) == IF k = 0 THEN 1 ELSE a_records[k].modulus * ModulusProduct(k - 1)
PairwiseCoprime ==
    \A i, j \in 1..Len(a_records) :
        i # j => gcd(a_records[i].modulus, a_records[j].modulus) = 1
CorrectResidues ==
    \A i \in 1..Len(a_records) :
        a_records[i].residue = secret % a_records[i].modulus
\* two records that share a prime and disagree on the overlap
HasConflict ==
    \E i, j \in 1..Len(a_records) :
        LET g == gcd(a_records[i].modulus, a_records[j].modulus)
        IN  g # 1 /\ a_records[i].residue % g # a_records[j].residue % g

\* C13: CRT round trip: for residue records with pairwise-coprime moduli and
\* residues r_i = s mod m_i, the iterative pairwise combination, in whatever
\* order the records come, has modulus_acc = the product of the moduli
\* combined so far and residue_acc = s mod that product, and so ends with the
\* product of all moduli and s modulo it.
C13_CrtRoundTrip ==
    (a_pc \in {"combine", "done"} /\ PairwiseCoprime /\ CorrectResidues) =>
        /\ a_result.kind # "inconsistent"
        /\ a_M = ModulusProduct(a_k)
        /\ a_R = secret % a_M
        /\ a_pc = "done" => a_k = Len(a_records)
\* three coprime records, not in ascending order, of a secret above a modulus
C13_Witness ==
    /\ a_pc = "done" /\ a_k = MaxRecords
    /\ PairwiseCoprime /\ CorrectResidues
    /\ a_records[1].modulus > a_records[2].modulus
    /\ secret > a_records[1].modulus
    /\ a_R = secret % a_M

\* C14: when a new record shares a prime with modulus_acc and disagrees on
\* the overlapping residue the run ends in the consistency failure, which is
\* fatal and is not the partial-knowledge outcome; when the overlapping
\* records agree the combination goes on and the result is congruent to
\* every residue recorded.
C14_OverlapMustAgree ==
    /\ a_pc = "combine" =>
          \A i \in 1..a_k : a_R % a_records[i].modulus = a_records[i].residue
    /\ a_pc = "done" =>
          IF HasConflict
            THEN a_result.kind = "inconsistent" /\ a_k < Len(a_records)
            ELSE /\ a_result.kind \in {"secret", "partial"}
                 /\ a_k = Len(a_records)
                 /\ \A i \in 1..Len(a_records) :
                        a_R % a_records[i].modulus = a_records[i].residue
\* the third record disagrees with an earlier one about a shared prime
C14_Witness ==
    /\ a_pc = "done" /\ a_result.kind = "inconsistent"
    /\ Len(a_records) = MaxRecords /\ a_k = 2
    /\ gcd(a_M, a_records[3].modulus) # 1

----------------------------------------------------------------------------
(* AttackOrchestrator.run_attack against the test server's oracle.         *)

\* the order of the point P under the group law of the curves with E0's a, p
RECURSIVE order_from(_, _, _, _)
order_from(P, S, n, E0) ==
    IF S = <<0, 0>> THEN n ELSE order_from(P, group_add(S, P, E0), n + 1, E0)
point_order(P, E0) == order_from(P, P, 1, E0)

\* the subgroup points a catalog for the field (p, a) may hold: a point of a
\* non-singular curve y^2 = x^3 + a*x + b, 0 < b < p, whose order is exactly
\* a prime power q
SubgroupPoints(a, q) ==
    {[P |-> pt, q |-> point_order(pt, [a |-> a, b |-> 0, p |-> q])] :
        pt \in {P \in Points(q) :
                  LET b == (P[2] * P[2] - P[1] * P[1] * P[1] - a * P[1]) % q
                  IN  /\ b # 0
                      /\ ~is_singular(a, b, q)
                      /\ point_order(P, [a |-> a, b |-> 0, p |-> q])
                           \in PrimePowers(2 * q + 1)}}

\* the search, bounded by q, for r with r * P = R
discrete_log(P, R, q, E0) ==
    LET sols == {r \in 0..(q - 1) : n_times(P, r, E0) = R}
    IN  IF sols = {} THEN [found |-> FALSE, val |-> 0]
        ELSE [found |-> TRUE, val |-> CHOOSE r \in sols : TRUE]

\* the oracle's answer was lost on the way (a timeout of the remote service)
Lost == [kind |-> "lost", pt |-> <<0, 0>>]

\* run_attack(catalog, oracle, expected_b) is called with the test server's
\* server_oracle as the oracle; the bound on the secret is the order of the
\* server's curve
InitAttack ==
    \* the server's curve, over the smallest of the fields
    /\ E \in {c \in Curves : \A q \in FieldPrimes : c.p <= q}
    /\ ~is_singular(E.a, E.b, E.p)
    /\ lib \in Libs
    /\ a_bound = curve_order(E.a, E.b, E.p)
    /\ secret \in {n \in 0..MaxScalar : n <= a_bound}
    /\ a_catalog \in SeqsUpTo(SubgroupPoints(E.a, E.p), MaxCatalog) \ {<<>>}
    /\ a_pc = "query" /\ a_i = 0 /\ a_answers = <<>> /\ a_records = <<>>
    /\ a_k = 0 /\ a_M = 1 /\ a_R = 0
    /\ a_result = [kind |-> "none", val |-> 0]
    /\ c_op = "none" /\ c_P = <<0, 0>> /\ c_Q = <<0, 0>> /\ c_n = 0
    /\ c_C = [shape |-> "pair", x |-> 0, y |-> 0]
    /\ c_out = None

\* steps 1-3 for the next subgroup point: it is submitted to the oracle; on
\* failure the subgroup stays unsolved; else secret mod q is searched for and
\* recorded
query_oracle ==
    /\ a_pc = "query"
    /\ a_i < Len(a_catalog)
    /\ LET sp == a_catalog[a_i + 1]
           C == [shape |-> "pair", x |-> sp.P[1], y |-> sp.P[2]]
       IN  \E R \in {server_oracle(C, E, secret, lib), Lost} :
              /\ a_answers' = Append(a_answers, R)
              /\ LET log == discrete_log(sp.P, R.pt, sp.q, E)
                 IN  a_records' =
                        IF R.kind = "point" /\ log.found
                          THEN Append(a_records,
                                      [modulus |-> sp.q, residue |-> log.val])
                          ELSE a_records
    /\ a_i' = a_i + 1
    /\ UNCHANGED <<a_pc, a_catalog, a_bound, a_k, a_M, a_R, a_result>>
    /\ UNCHANGED <<tvars, fvars, cvars, gvars, ovars>>

\* all subgroups are attempted: the records go to the CRT combination
all_subgroups_attempted ==
    /\ a_pc = "query"
    /\ a_i = Len(a_catalog)
    /\ a_pc' = "combine"
    /\ UNCHANGED <<a_catalog, a_bound, a_i, a_answers, a_records, a_k, a_M,
                   a_R, a_result>>
    /\ UNCHANGED <<tvars, fvars, cvars, gvars, ovars>>

InitA == InitAttack /\ TimedIdle /\ FactorIdle /\ GeneratorIdle /\ OuterIdle
NextA ==
    \/ query_oracle
    \/ all_subgroups_attempted
    \/ crt_combine
    \/ run_attack_returns
SpecA == InitA /\ [][NextA]_vars

\* the queries that got an answer from the server, and those that got a point
Answered(i) == a_answers[i].kind # "lost"
Succeeded(i) == a_answers[i].kind = "point"
NoneLost == \A i \in 1..Len(a_answers) : Answered(i)

\* C11: against an oracle that multiplies by a fixed secret s (the test
\* server's server_oracle), run_attack returns the integer s, exactly when
\* the accumulated CRT modulus exceeds the known bound on the secret, or else
\* a non-empty list of residue records with s mod modulus_i = residue_i for
\* each; the two outcomes differ in shape.
C11_SecretOrConsistentResidues ==
    (a_pc = "done" /\ a_catalog # <<>> /\ NoneLost) =>
        IF a_M > a_bound
          THEN a_result = [kind |-> "secret", val |-> secret]
          ELSE /\ a_result.kind = "partial"
               /\ a_records # <<>>
               /\ CorrectResidues

====
